---- MODULE Spec2Model ----
(***************************************************************************)
(* Model of the two scripts of the repository:                             *)
(*   webtext.py        - link collection, bounded render pool, merge       *)
(*   webscraper_api.py - the same pipeline with a different render worker  *)
(* The coordinator (module-level script code) and every render invocation  *)
(* (save_page_as_pdf / process_page) are processes with a position (pc).   *)
(* Outcomes of the network, the browser engine and the file system are     *)
(* nondeterministic choices.                                               *)
(***************************************************************************)
EXTENDS Integers, Sequences, FiniteSets, TLC

\* ------------------------------------------------------------------ bounds
MaxN == 3
MaxK == 2
MaxHeight == 2

Progs == {"webtext", "api"}
\* values of --threads: argparse type=int accepts any integer
KValues == {-1, 0} \cup (1..MaxK)
Indices == 1..MaxN
Heights == 1..MaxHeight

VARIABLES
    prog,        \* which script runs
    K,           \* MAX_THREADS / num_threads
    pc,          \* coordinator position
    outcome,     \* "none" while running, then "exit0" | "exit1" | "crash"
    fetched,     \* "pending" | "failed" | "empty" | "ok": the link fetch
    N,           \* len(links)
    linksFile,   \* website_links.txt exists (webscraper_api.py only)
    dirExists,   \* pdf_pages exists
    dirCreated,  \* this run's makedirs created pdf_pages
    files,       \* pdf_pages/page_<i>.pdf : "none" | "empty" | "data"
    poolSize,    \* max_workers of the executor, 0 before it exists
    submitted,   \* number of futures submitted
    queue,       \* executor work queue (indices not yet started)
    inv,         \* per index: the render invocation
    results,     \* values returned by future.result(), in collection order
    excPending,  \* an exception is unwinding through the with-block
    pdf_files,   \* the list pdf_files
    mergePos,    \* position of the merge loop in pdf_files
    writer,      \* documents appended to the PdfWriter
    artifact,    \* contents of merged.pdf written by this run
    artifactWritten,
    doneOrder,   \* indices in the order their invocations returned
    BASE_URL,    \* the seed URL (link collection)
    hrefs,       \* urljoin(BASE_URL, a["href"]) of every anchor, in page order
    links,       \* the list links after sorted(links)
    calls,       \* <<index, link>> of every executor.submit
    lpc          \* link collection position: "collect" | "submit" | "done"

\* the state of the pool, the render workers and the merge
mainVars == <<prog, K, pc, outcome, fetched, N, linksFile, dirExists,
              dirCreated, files, poolSize, submitted, queue, inv, results,
              excPending, pdf_files, mergePos, writer, artifact,
              artifactWritten, doneOrder>>

\* the state of the link collection
linkVars == <<BASE_URL, hrefs, links, calls, lpc>>

vars == <<mainVars, linkVars>>

\* ------------------------------------------------------- strings and paths
None == <<>>

DigitChars == <<"0", "1", "2", "3", "4", "5", "6", "7", "8", "9">>

\* str(n) for n >= 0
RECURSIVE Str(_)
Str(n) == IF n < 10 THEN <<DigitChars[n + 1]>>
          ELSE Str(n \div 10) \o <<DigitChars[(n % 10) + 1]>>

IsDigit(c) == \E d \in 1..10 : DigitChars[d] = c
DigitVal(c) == (CHOOSE d \in 1..10 : DigitChars[d] = c) - 1

\* int(s) for a string of decimal digits; -1 stands for ValueError
RECURSIVE IntOf(_)
IntOf(s) ==
    IF s = <<>> \/ \E k \in 1..Len(s) : ~IsDigit(s[k]) THEN -1
    ELSE IF Len(s) = 1 THEN DigitVal(s[1])
    ELSE IntOf(SubSeq(s, 1, Len(s) - 1)) * 10 + DigitVal(s[Len(s)])

\* s.split(sep) for a one-character separator
RECURSIVE Split(_, _)
Split(s, sep) ==
    IF \A k \in 1..Len(s) : s[k] # sep THEN <<s>>
    ELSE LET p == CHOOSE k \in 1..Len(s) :
                      s[k] = sep /\ \A j \in 1..(k - 1) : s[j] # sep
         IN <<SubSeq(s, 1, p - 1)>> \o Split(SubSeq(s, p + 1, Len(s)), sep)

\* position of the last occurrence of c in s, 0 when absent
LastPos(s, c) ==
    IF \A k \in 1..Len(s) : s[k] # c THEN 0
    ELSE CHOOSE k \in 1..Len(s) :
             s[k] = c /\ \A j \in (k + 1)..Len(s) : s[j] # c

\* os.path.basename
Basename(p) == SubSeq(p, LastPos(p, "/") + 1, Len(p))

\* os.path.splitext(p)[0]
SplitextRoot(p) ==
    LET d == LastPos(p, ".")
    IN IF d <= 1 THEN p ELSE SubSeq(p, 1, d - 1)

PDF_DIR == <<"p", "d", "f", "_", "p", "a", "g", "e", "s">>

\* os.path.join(PDF_DIR, f"page_{index}.pdf")
PdfPath(index) ==
    PDF_DIR \o <<"/">> \o <<"p", "a", "g", "e", "_">> \o Str(index)
            \o <<".", "p", "d", "f">>

\* webtext.py sort key: int(os.path.basename(x).split("_")[1].split(".")[0])
KeyWebtext(x) == IntOf(Split(Split(Basename(x), "_")[2], ".")[1])

\* webscraper_api.py sort key:
\* int(os.path.splitext(os.path.basename(x))[0].split('_')[1])
KeyApi(x) == IntOf(Split(SplitextRoot(Basename(x)), "_")[2])

SortKey(x) == IF prog = "webtext" THEN KeyWebtext(x) ELSE KeyApi(x)

\* stable insertion of x into a list already sorted by SortKey
RECURSIVE InsertByKey(_, _)
InsertByKey(x, s) ==
    IF s = <<>> THEN <<x>>
    ELSE IF SortKey(x) < SortKey(s[1]) THEN <<x>> \o s
    ELSE <<s[1]>> \o InsertByKey(x, Tail(s))

\* mutant: the sort orders by descending key
RECURSIVE InsertByKeyDesc(_, _)
InsertByKeyDesc(x, s) ==
    IF s = <<>> THEN <<x>>
    ELSE IF SortKey(x) > SortKey(s[1]) THEN <<x>> \o s
    ELSE <<s[1]>> \o InsertByKeyDesc(x, Tail(s))

RECURSIVE SortByIndex_desc(_)
SortByIndex_desc(s) ==
    IF s = <<>> THEN <<>>
    ELSE InsertByKeyDesc(s[Len(s)], SortByIndex_desc(SubSeq(s, 1, Len(s) - 1)))

\* list.sort(key=...) / sorted(list, key=...): stable, ascending by key
RECURSIVE SortByIndex(_)
SortByIndex(s) ==
    IF s = <<>> THEN <<>>
    ELSE InsertByKey(s[Len(s)], SortByIndex(SubSeq(s, 1, Len(s) - 1)))

\* ------------------------------------------------------------ initial state
IdleInv == [pc |-> "idle", session |-> "none", quits |-> 0, starts |-> 0,
            h |-> 0, result |-> None, raised |-> FALSE]

NoFiles == [i \in Indices |-> "none"]
\* pdf_pages left behind by an earlier run, holding page_1.pdf
StaleFiles == [i \in Indices |-> IF i = 1 THEN "data" ELSE "none"]

Init ==
    /\ prog \in Progs
    /\ K \in KValues
    /\ pc = "fetch"
    /\ outcome = "none"
    /\ fetched = "pending"
    /\ N = 0
    /\ linksFile = FALSE
    /\ dirExists \in BOOLEAN
    /\ dirCreated = FALSE
    /\ files = IF dirExists THEN StaleFiles ELSE NoFiles
    /\ poolSize = 0
    /\ submitted = 0
    /\ queue = <<>>
    /\ inv = [i \in Indices |-> IdleInv]
    /\ results = <<>>
    /\ excPending = FALSE
    /\ pdf_files = <<>>
    /\ mergePos = 0
    /\ writer = <<>>
    /\ artifact = <<>>
    /\ artifactWritten = FALSE
    /\ doneOrder = <<>>
    /\ BASE_URL = <<>>
    /\ hrefs = <<>>
    /\ links = <<>>
    /\ calls = <<>>
    /\ lpc = "collect"

\* exit status of the process: an uncaught exception ends Python with status 1
ExitStatus == IF outcome = "exit0" THEN 0 ELSE 1

Terminated == pc = "done"

\* render invocations that have started and not yet returned
Running == {i \in Indices : inv[i].pc \notin {"idle", "queued", "returned"}}

\* engine sessions opened and not torn down
OpenSessions == {i \in Indices : inv[i].session = "open"}

coordVars == <<pc, outcome, N, linksFile, dirExists, dirCreated, poolSize,
               submitted, results, excPending, pdf_files, mergePos, writer,
               artifact, artifactWritten>>

\* ------------------------------------------------- coordinator: link fetch
\* mutant: a failed fetch or an empty link set does not end the run
W_FetchLinks_noexit ==
    /\ prog = "webtext" /\ pc = "fetch"
    /\ \E ok \in BOOLEAN, n \in 0..MaxN :
          /\ N' = IF ok THEN n ELSE 0
          /\ fetched' = IF ok /\ n > 0 THEN "ok"
                        ELSE IF ok THEN "empty" ELSE "failed"
    /\ pc' = "mkdir"
    /\ UNCHANGED <<prog, K, outcome, linksFile, dirExists, dirCreated, files,
                   poolSize, submitted, queue, inv, results, excPending,
                   pdf_files, mergePos, writer, artifact, artifactWritten,
                   doneOrder, linkVars>>

\* webtext.py: requests.get / raise_for_status, anchor filtering, exit(1)
W_FetchLinks ==
    /\ prog = "webtext" /\ pc = "fetch"
    /\ \E ok \in BOOLEAN, n \in 0..MaxN :
          IF ok /\ n > 0
          THEN /\ N' = n /\ pc' = "mkdir" /\ outcome' = outcome
               /\ fetched' = "ok"
          ELSE /\ N' = N /\ pc' = "done" /\ outcome' = "exit1"
               /\ fetched' = IF ok THEN "empty" ELSE "failed"
    /\ UNCHANGED <<prog, K, linksFile, dirExists, dirCreated, files,
                   poolSize, submitted, queue, inv, results, excPending,
                   pdf_files, mergePos, writer, artifact, artifactWritten,
                   doneOrder, linkVars>>

\* webscraper_api.py: fetch, exit() on failure or on no links, links file
\* written and read back
A_FetchLinks ==
    /\ prog = "api" /\ pc = "fetch"
    /\ \E ok \in BOOLEAN, n \in 0..MaxN :
          IF ok /\ n > 0
          THEN /\ N' = n /\ pc' = "mkdir" /\ outcome' = outcome
               /\ fetched' = "ok"
               /\ linksFile' = TRUE
          ELSE /\ N' = N /\ pc' = "done" /\ outcome' = "exit0"
               /\ fetched' = IF ok THEN "empty" ELSE "failed"
               /\ linksFile' = linksFile
    /\ UNCHANGED <<prog, K, dirExists, dirCreated, files, poolSize,
                   submitted, queue, inv, results, excPending, pdf_files,
                   mergePos, writer, artifact, artifactWritten, doneOrder,
                   linkVars>>

\* os.makedirs(PDF_DIR, exist_ok=True)
MakeDir ==
    /\ pc = "mkdir"
    /\ dirExists' = TRUE
    /\ dirCreated' = ~dirExists
    /\ pc' = "pool"
    /\ UNCHANGED <<prog, K, fetched, outcome, N, linksFile, files, poolSize,
                   submitted, queue, inv, results, excPending, pdf_files,
                   mergePos, writer, artifact, artifactWritten, doneOrder,
                   linkVars>>

\* ------------------------------------------------------ coordinator: pool
\* mutant: a limit <= 0 is coerced to one worker
CreatePool_coerce ==
    /\ pc = "pool"
    /\ pc' = "submit"
    /\ poolSize' = IF K <= 0 THEN 1 ELSE K
    /\ UNCHANGED <<prog, K, fetched, outcome, N, linksFile, dirExists,
                   dirCreated, files, submitted, queue, inv, results,
                   excPending, pdf_files, mergePos, writer, artifact,
                   artifactWritten, doneOrder, linkVars>>

\* ThreadPoolExecutor(max_workers=K): ValueError when K <= 0, raised before
\* the with-block is entered
CreatePool ==
    /\ pc = "pool"
    /\ IF K <= 0
       THEN /\ pc' = "done" /\ outcome' = "crash" /\ poolSize' = poolSize
       ELSE /\ pc' = "submit" /\ outcome' = outcome /\ poolSize' = K
    /\ UNCHANGED <<prog, K, fetched, N, linksFile, dirExists, dirCreated,
                   files, submitted, queue, inv, results, excPending,
                   pdf_files, mergePos, writer, artifact, artifactWritten,
                   doneOrder, linkVars>>

\* executor.submit(save_page_as_pdf, i + 1, link) for the next link
Submit ==
    /\ pc = "submit"
    /\ submitted < N
    /\ submitted' = submitted + 1
    /\ queue' = Append(queue, submitted + 1)
    /\ inv' = [inv EXCEPT ![submitted + 1].pc = "queued"]
    /\ pc' = IF submitted + 1 = N THEN "collect" ELSE "submit"
    /\ UNCHANGED <<prog, K, fetched, outcome, N, linksFile, dirExists,
                   dirCreated, files, poolSize, results, excPending,
                   pdf_files, mergePos, writer, artifact, artifactWritten,
                   doneOrder, linkVars>>

\* mutant: every queued work item gets a thread at once
StartInvocation_unbounded ==
    /\ queue # <<>>
    /\ poolSize > 0
    /\ LET i == Head(queue)
       IN inv' = [inv EXCEPT ![i].pc = "chrome", ![i].starts = @ + 1]
    /\ queue' = Tail(queue)
    /\ UNCHANGED <<prog, K, fetched, files, doneOrder, linkVars>>
    /\ UNCHANGED coordVars

\* a pool thread takes the oldest queued work item; the pool never runs more
\* than max_workers threads
StartInvocation ==
    /\ queue # <<>>
    /\ Cardinality(Running) < poolSize
    /\ LET i == Head(queue)
       IN inv' = [inv EXCEPT ![i].pc = "chrome", ![i].starts = @ + 1]
    /\ queue' = Tail(queue)
    /\ UNCHANGED <<prog, K, fetched, files, doneOrder, linkVars>>
    /\ UNCHANGED coordVars

\* mutant: a future counts as done as soon as its invocation has started
FutureDone_early(i) == inv[i].pc \notin {"idle", "queued"}

\* the future of index i is done: future.result() returns (or raises) and
\* the worker that ran it can be joined
FutureDone(i) == inv[i].pc = "returned"

\* mutant: the merge list is filled from the files found in pdf_pages
Collect_glob ==
    /\ pc = "collect"
    /\ LET i == Len(results) + 1
       IN /\ FutureDone(i)
          /\ IF inv[i].raised
             THEN /\ excPending' = TRUE
                  /\ pc' = "join"
                  /\ UNCHANGED <<results, pdf_files>>
             ELSE /\ results' = Append(results, inv[i].result)
                  /\ pdf_files' = IF files[i] # "none"
                                  THEN Append(pdf_files, PdfPath(i))
                                  ELSE pdf_files
                  /\ pc' = IF i = N THEN "join" ELSE "collect"
                  /\ UNCHANGED excPending
    /\ UNCHANGED <<prog, K, fetched, outcome, N, linksFile, dirExists,
                   dirCreated, files, poolSize, submitted, queue, inv,
                   mergePos, writer, artifact, artifactWritten, doneOrder,
                   linkVars>>

\* for future in futures: result = future.result(); if result: append
Collect ==
    /\ pc = "collect"
    /\ LET i == Len(results) + 1
       IN /\ FutureDone(i)
          /\ IF inv[i].raised
             THEN /\ excPending' = TRUE
                  /\ pc' = "join"
                  /\ UNCHANGED <<results, pdf_files>>
             ELSE /\ results' = Append(results, inv[i].result)
                  /\ pdf_files' = IF inv[i].result # None
                                  THEN Append(pdf_files, inv[i].result)
                                  ELSE pdf_files
                  /\ pc' = IF i = N THEN "join" ELSE "collect"
                  /\ UNCHANGED excPending
    /\ UNCHANGED <<prog, K, fetched, outcome, N, linksFile, dirExists,
                   dirCreated, files, poolSize, submitted, queue, inv,
                   mergePos, writer, artifact, artifactWritten, doneOrder,
                   linkVars>>

\* leaving the with-block: executor.shutdown(wait=True) joins every worker,
\* then a pending exception ends the script
Join ==
    /\ pc = "join"
    /\ \A i \in 1..submitted : FutureDone(i)
    /\ IF excPending
       THEN /\ pc' = "done" /\ outcome' = "crash"
       ELSE /\ pc' = IF prog = "webtext" THEN "check" ELSE "sort"
            /\ outcome' = outcome
    /\ UNCHANGED <<prog, K, fetched, N, linksFile, dirExists, dirCreated,
                   files, poolSize, submitted, queue, inv, results,
                   excPending, pdf_files, mergePos, writer, artifact,
                   artifactWritten, doneOrder, linkVars>>

\* ------------------------------------- render worker: webtext.py
\* every step of one invocation leaves the coordinator and the pool alone
workerFrame(i) ==
    /\ doneOrder' = IF inv'[i].pc = "returned" THEN Append(doneOrder, i)
                    ELSE doneOrder
    /\ UNCHANGED <<prog, K, fetched, queue, linkVars>>
    /\ UNCHANGED coordVars

\* mutant: the handler returns None without reaching driver.quit()
Fail_noquit(i) == [inv[i] EXCEPT !.pc = "returned", !.h = 0, !.result = None]

\* the except handler (log, return None) followed by the finally block
Fail(i) == [inv[i] EXCEPT !.pc = "quit", !.h = 0, !.result = None]

\* driver = webdriver.Chrome(options=chrome_options): outside the try, so a
\* failure to start the session leaves the function as an exception
save_page_as_pdf_chrome(i) ==
    /\ prog = "webtext" /\ inv[i].pc = "chrome"
    /\ \/ inv' = [inv EXCEPT ![i].pc = "get", ![i].session = "open"]
       \/ inv' = [inv EXCEPT ![i].pc = "returned", ![i].raised = TRUE]
    /\ UNCHANGED files
    /\ workerFrame(i)

\* driver.get(link)
save_page_as_pdf_get(i) ==
    /\ prog = "webtext" /\ inv[i].pc = "get"
    /\ \/ inv' = [inv EXCEPT ![i].pc = "check"]
       \/ inv' = [inv EXCEPT ![i] = Fail(i)]
    /\ UNCHANGED files
    /\ workerFrame(i)

\* if is_blocked_domain(driver.current_url): return None
save_page_as_pdf_check(i) ==
    /\ prog = "webtext" /\ inv[i].pc = "check"
    /\ \E blocked \in BOOLEAN :
          inv' = [inv EXCEPT ![i] = IF blocked THEN Fail(i)
                                    ELSE [inv[i] EXCEPT !.pc = "wait"]]
    /\ UNCHANGED files
    /\ workerFrame(i)

\* WebDriverWait(driver, 15).until(presence of body)
save_page_as_pdf_wait(i) ==
    /\ prog = "webtext" /\ inv[i].pc = "wait"
    /\ \/ inv' = [inv EXCEPT ![i].pc = "script"]
       \/ inv' = [inv EXCEPT ![i] = Fail(i)]
    /\ UNCHANGED files
    /\ workerFrame(i)

\* style injection, then last_height = scrollHeight
save_page_as_pdf_script(i) ==
    /\ prog = "webtext" /\ inv[i].pc = "script"
    /\ \/ \E height \in Heights :
             inv' = [inv EXCEPT ![i].pc = "scroll", ![i].h = height]
       \/ inv' = [inv EXCEPT ![i] = Fail(i)]
    /\ UNCHANGED files
    /\ workerFrame(i)

\* mutant: the loop is left after one measurement, equal or not
save_page_as_pdf_scroll_once(i) ==
    /\ prog = "webtext" /\ inv[i].pc = "scroll"
    /\ \/ \E new_height \in Heights :
             inv' = [inv EXCEPT ![i].pc = "export", ![i].h = new_height]
       \/ inv' = [inv EXCEPT ![i] = Fail(i)]
    /\ UNCHANGED files
    /\ workerFrame(i)

\* one pass of the while True loop: scroll, sleep, measure, compare.  h is
\* the latest measurement: last_height, and new_height once the loop is left
save_page_as_pdf_scroll(i) ==
    /\ prog = "webtext" /\ inv[i].pc = "scroll"
    /\ \/ \E new_height \in Heights :
             inv' = [inv EXCEPT ![i] =
                        IF new_height = inv[i].h
                        THEN [inv[i] EXCEPT !.pc = "export"]
                        ELSE [inv[i] EXCEPT !.h = new_height]]
       \/ inv' = [inv EXCEPT ![i] = Fail(i)]
    /\ UNCHANGED files
    /\ workerFrame(i)

\* driver.execute_cdp_cmd("Page.printToPDF", ...)
save_page_as_pdf_export(i) ==
    /\ prog = "webtext" /\ inv[i].pc = "export"
    /\ \/ inv' = [inv EXCEPT ![i].pc = "write", ![i].h = 0]
       \/ inv' = [inv EXCEPT ![i] = Fail(i)]
    /\ UNCHANGED files
    /\ workerFrame(i)

\* with open(pdf_path, "wb") as f: f.write(base64.b64decode(...)); return
\* pdf_path.  open truncates the file before the payload is decoded.
save_page_as_pdf_write(i) ==
    /\ prog = "webtext" /\ inv[i].pc = "write"
    /\ \/ \* open fails
          /\ inv' = [inv EXCEPT ![i] = Fail(i)]
          /\ UNCHANGED files
       \/ \* decode or write fails after the file was created
          /\ inv' = [inv EXCEPT ![i] = Fail(i)]
          /\ files' = [files EXCEPT ![i] = "empty"]
       \/ \* written; the payload may decode to zero bytes
          /\ \E content \in {"data", "empty"} :
                files' = [files EXCEPT ![i] = content]
          /\ inv' = [inv EXCEPT ![i].pc = "quit", ![i].result = PdfPath(i)]
    /\ workerFrame(i)

\* finally: driver.quit(), then the function returns
save_page_as_pdf_finally(i) ==
    /\ prog = "webtext" /\ inv[i].pc = "quit"
    /\ inv' = [inv EXCEPT ![i].pc = "returned", ![i].session = "closed",
                          ![i].quits = @ + 1]
    /\ UNCHANGED files
    /\ workerFrame(i)

save_page_as_pdf(i) ==
    \/ save_page_as_pdf_chrome(i)
    \/ save_page_as_pdf_get(i)
    \/ save_page_as_pdf_check(i)
    \/ save_page_as_pdf_wait(i)
    \/ save_page_as_pdf_script(i)
    \/ save_page_as_pdf_scroll(i)
    \/ save_page_as_pdf_export(i)
    \/ save_page_as_pdf_write(i)
    \/ save_page_as_pdf_finally(i)

\* ------------------------------------- render worker: webscraper_api.py
\* a handler that calls driver.quit() and returns None
QuitNone(i) == [inv[i] EXCEPT !.pc = "quit", !.result = None]

\* driver = webdriver.Chrome(...) inside the outer try: a failure returns
\* None through the outer handler
process_page_chrome(i) ==
    /\ prog = "api" /\ inv[i].pc = "chrome"
    /\ \/ inv' = [inv EXCEPT ![i].pc = "get", ![i].session = "open"]
       \/ inv' = [inv EXCEPT ![i].pc = "returned"]
    /\ UNCHANGED files
    /\ workerFrame(i)

\* driver.get(link): a failure reaches the outer handler, which returns None
\* without driver.quit()
process_page_get(i) ==
    /\ prog = "api" /\ inv[i].pc = "get"
    /\ \/ inv' = [inv EXCEPT ![i].pc = "wait"]
       \/ inv' = [inv EXCEPT ![i].pc = "returned"]
    /\ UNCHANGED files
    /\ workerFrame(i)

\* readyState wait, sleep, one scroll; on failure quit and return None
process_page_wait(i) ==
    /\ prog = "api" /\ inv[i].pc = "wait"
    /\ \/ inv' = [inv EXCEPT ![i].pc = "export"]
       \/ inv' = [inv EXCEPT ![i] = QuitNone(i)]
    /\ UNCHANGED files
    /\ workerFrame(i)

\* Page.printToPDF; on failure quit and return None
process_page_export(i) ==
    /\ prog = "api" /\ inv[i].pc = "export"
    /\ \/ inv' = [inv EXCEPT ![i].pc = "write"]
       \/ inv' = [inv EXCEPT ![i] = QuitNone(i)]
    /\ UNCHANGED files
    /\ workerFrame(i)

\* base64.b64decode, then open(pdf_file, 'wb') and write
process_page_write(i) ==
    /\ prog = "api" /\ inv[i].pc = "write"
    /\ \/ \* decode or open fails
          /\ inv' = [inv EXCEPT ![i] = QuitNone(i)]
          /\ UNCHANGED files
       \/ \* write fails after the file was created
          /\ inv' = [inv EXCEPT ![i] = QuitNone(i)]
          /\ files' = [files EXCEPT ![i] = "empty"]
       \/ /\ \E content \in {"data", "empty"} :
                files' = [files EXCEPT ![i] = content]
          /\ inv' = [inv EXCEPT ![i].pc = "verify"]
    /\ workerFrame(i)

\* if os.path.exists(pdf_file) and os.path.getsize(pdf_file) > 0
process_page_verify(i) ==
    /\ prog = "api" /\ inv[i].pc = "verify"
    /\ inv' = [inv EXCEPT ![i].pc = "quit",
                          ![i].result = IF files[i] = "data" THEN PdfPath(i)
                                        ELSE None]
    /\ UNCHANGED files
    /\ workerFrame(i)

\* driver.quit(); return
process_page_quit(i) ==
    /\ prog = "api" /\ inv[i].pc = "quit"
    /\ inv' = [inv EXCEPT ![i].pc = "returned", ![i].session = "closed",
                          ![i].quits = @ + 1]
    /\ UNCHANGED files
    /\ workerFrame(i)

process_page(i) ==
    \/ process_page_chrome(i)
    \/ process_page_get(i)
    \/ process_page_wait(i)
    \/ process_page_export(i)
    \/ process_page_write(i)
    \/ process_page_verify(i)
    \/ process_page_quit(i)

\* ------------------------------------------------ coordinator: merge
\* the file a path of pdf_files names
FileAt(p) == files[CHOOSE i \in Indices : PdfPath(i) = p]

mergeFrame == UNCHANGED <<prog, K, fetched, N, dirCreated, poolSize,
                          submitted, queue, inv, results, excPending,
                          doneOrder, linkVars>>

\* mutant: the merge runs on an empty list
W_CheckEmpty_noexit ==
    /\ prog = "webtext" /\ pc = "check"
    /\ pc' = "sort"
    /\ UNCHANGED <<outcome, linksFile, dirExists, files, pdf_files, mergePos,
                   writer, artifact, artifactWritten>>
    /\ mergeFrame

\* webtext.py: if not pdf_files: exit(1)
W_CheckEmpty ==
    /\ prog = "webtext" /\ pc = "check"
    /\ IF pdf_files = <<>>
       THEN pc' = "done" /\ outcome' = "exit1"
       ELSE pc' = "sort" /\ outcome' = outcome
    /\ UNCHANGED <<linksFile, dirExists, files, pdf_files, mergePos, writer,
                   artifact, artifactWritten>>
    /\ mergeFrame

\* webtext.py: pdf_files.sort(key=...); writer = PdfWriter()
W_Sort ==
    /\ prog = "webtext" /\ pc = "sort"
    /\ pdf_files' = SortByIndex(pdf_files)
    /\ writer' = <<>>
    /\ mergePos' = 1
    /\ pc' = "append"
    /\ UNCHANGED <<outcome, linksFile, dirExists, files, artifact,
                   artifactWritten>>
    /\ mergeFrame

\* webtext.py: try: writer.append(pdf) except Exception: skip.  An empty or
\* missing file is never readable; a written one may still be corrupt.
W_Append ==
    /\ prog = "webtext" /\ pc = "append"
    /\ mergePos <= Len(pdf_files)
    /\ LET pdf == pdf_files[mergePos]
       IN \/ /\ FileAt(pdf) = "data"
             /\ writer' = Append(writer, pdf)
          \/ writer' = writer
    /\ mergePos' = mergePos + 1
    /\ UNCHANGED <<pc, outcome, linksFile, dirExists, files, pdf_files,
                   artifact, artifactWritten>>
    /\ mergeFrame

\* webtext.py: writer.write("merged.pdf"); writer.close()
W_Write ==
    /\ prog = "webtext" /\ pc = "append"
    /\ mergePos > Len(pdf_files)
    /\ artifact' = writer
    /\ artifactWritten' = TRUE
    /\ pc' = "cleanup"
    /\ UNCHANGED <<outcome, linksFile, dirExists, files, pdf_files, mergePos,
                   writer>>
    /\ mergeFrame

\* webtext.py: shutil.rmtree(PDF_DIR, ignore_errors=True); script ends
W_Cleanup ==
    /\ prog = "webtext" /\ pc = "cleanup"
    /\ dirExists' = FALSE
    /\ files' = NoFiles
    /\ pc' = "done"
    /\ outcome' = "exit0"
    /\ UNCHANGED <<linksFile, pdf_files, mergePos, writer, artifact,
                   artifactWritten>>
    /\ mergeFrame

\* webscraper_api.py: pdf_files = sorted(pdf_files, key=...)
A_Sort ==
    /\ prog = "api" /\ pc = "sort"
    /\ pdf_files' = SortByIndex(pdf_files)
    /\ pc' = "check"
    /\ UNCHANGED <<outcome, linksFile, dirExists, files, mergePos, writer,
                   artifact, artifactWritten>>
    /\ mergeFrame

\* webscraper_api.py: if pdf_files: try: writer = PdfWriter() ... else: print
A_Check ==
    /\ prog = "api" /\ pc = "check"
    /\ IF pdf_files # <<>>
       THEN pc' = "append" /\ mergePos' = 1 /\ writer' = <<>>
       ELSE pc' = "rmlinks" /\ mergePos' = mergePos /\ writer' = writer
    /\ UNCHANGED <<outcome, linksFile, dirExists, files, pdf_files, artifact,
                   artifactWritten>>
    /\ mergeFrame

\* webscraper_api.py: writer.append(pdf) inside the try; an unreadable
\* document raises into "except Exception", which abandons the merge
A_Append ==
    /\ prog = "api" /\ pc = "append"
    /\ mergePos <= Len(pdf_files)
    /\ LET pdf == pdf_files[mergePos]
       IN \/ /\ FileAt(pdf) = "data"
             /\ writer' = Append(writer, pdf)
             /\ mergePos' = mergePos + 1
             /\ pc' = pc
          \/ /\ writer' = writer
             /\ mergePos' = mergePos
             /\ pc' = "rmlinks"
    /\ UNCHANGED <<outcome, linksFile, dirExists, files, pdf_files, artifact,
                   artifactWritten>>
    /\ mergeFrame

\* webscraper_api.py: writer.write("merged.pdf"); writer.close()
A_Write ==
    /\ prog = "api" /\ pc = "append"
    /\ mergePos > Len(pdf_files)
    /\ artifact' = writer
    /\ artifactWritten' = TRUE
    /\ pc' = "cleanup"
    /\ UNCHANGED <<outcome, linksFile, dirExists, files, pdf_files, mergePos,
                   writer>>
    /\ mergeFrame

\* webscraper_api.py: shutil.rmtree(pdf_folder, ignore_errors=True)
A_Cleanup ==
    /\ prog = "api" /\ pc = "cleanup"
    /\ dirExists' = FALSE
    /\ files' = NoFiles
    /\ pc' = "rmlinks"
    /\ UNCHANGED <<outcome, linksFile, pdf_files, mergePos, writer, artifact,
                   artifactWritten>>
    /\ mergeFrame

\* webscraper_api.py: os.remove(text_file); the script ends normally
A_RemoveLinks ==
    /\ prog = "api" /\ pc = "rmlinks"
    /\ linksFile' = FALSE
    /\ pc' = "done"
    /\ outcome' = "exit0"
    /\ UNCHANGED <<dirExists, files, pdf_files, mergePos, writer, artifact,
                   artifactWritten>>
    /\ mergeFrame

\* ------------------------------------------------------- specification
Next ==
    \/ W_FetchLinks
    \/ A_FetchLinks
    \/ MakeDir
    \/ CreatePool
    \/ Submit
    \/ StartInvocation
    \/ \E i \in Indices : save_page_as_pdf(i)
    \/ \E i \in Indices : process_page(i)
    \/ Collect
    \/ Join
    \/ W_CheckEmpty
    \/ W_Sort
    \/ W_Append
    \/ W_Write
    \/ W_Cleanup
    \/ A_Sort
    \/ A_Check
    \/ A_Append
    \/ A_Write
    \/ A_Cleanup
    \/ A_RemoveLinks

Spec == Init /\ [][Next]_vars

\* --------------------------------------------- link collection: webtext.py
\* characters of the URLs used here, in code point order (str comparison)
CharOrder ==
    <<"#", ".", "/", ":", "=", "?", "X", "a", "b", "c", "d", "e", "f", "g",
      "h", "i", "k", "l", "m", "n", "o", "p", "q", "r", "s", "t", "u", "w",
      "x", "y">>

Ord(c) == CHOOSE k \in 1..Len(CharOrder) : CharOrder[k] = c

\* a < b for two str values
RECURSIVE StrLess(_, _)
StrLess(a, b) ==
    IF b = <<>> THEN FALSE
    ELSE IF a = <<>> THEN TRUE
    ELSE IF a[1] = b[1] THEN StrLess(Tail(a), Tail(b))
    ELSE Ord(a[1]) < Ord(b[1])

\* str.lower(), on the characters of CharOrder
LowerChar(c) == IF c = "X" THEN "x" ELSE c
Lower(s) == [k \in 1..Len(s) |-> LowerChar(s[k])]

\* s.rstrip(c)
RECURSIVE RStrip(_, _)
RStrip(s, c) ==
    IF s # <<>> /\ s[Len(s)] = c THEN RStrip(SubSeq(s, 1, Len(s) - 1), c)
    ELSE s

\* s.startswith(pre)
StartsWith(s, pre) == Len(pre) <= Len(s) /\ SubSeq(s, 1, Len(pre)) = pre

\* sub in s
Contains(s, sub) ==
    \E k \in 1..(Len(s) - Len(sub) + 1) : SubSeq(s, k, k + Len(sub) - 1) = sub

\* urlparse(u).netloc: the text between "scheme://" and the next "/", "?"
\* or "#"; empty when no "//" follows the scheme
Netloc(u) ==
    LET c == IF \E k \in 1..Len(u) : u[k] = ":"
             THEN CHOOSE k \in 1..Len(u) :
                      u[k] = ":" /\ \A j \in 1..(k - 1) : u[j] # ":"
             ELSE 0
        rest == SubSeq(u, c + 1, Len(u))
    IN IF c = 0 \/ ~StartsWith(rest, <<"/", "/">>) THEN <<>>
       ELSE LET body == SubSeq(rest, 3, Len(rest))
                stop == {k \in 1..Len(body) : body[k] \in {"/", "?", "#"}}
            IN IF stop = {} THEN body
               ELSE SubSeq(body, 1,
                           (CHOOSE k \in stop : \A j \in stop : k <= j) - 1)

BLOCKED_DOMAINS ==
    {<<"f", "a", "c", "e", "b", "o", "o", "k", ".", "c", "o", "m">>,
     <<"i", "n", "s", "t", "a", "g", "r", "a", "m", ".", "c", "o", "m">>,
     <<"t", "w", "i", "t", "t", "e", "r", ".", "c", "o", "m">>,
     <<"x", ".", "c", "o", "m">>,
     <<"l", "i", "n", "k", "e", "d", "i", "n", ".", "c", "o", "m">>,
     <<"y", "o", "u", "t", "u", "b", "e", ".", "c", "o", "m">>,
     <<"w", "a", ".", "m", "e">>,
     <<"t", ".", "m", "e">>}

\* mutant: trailing slashes are kept
clean_url_keepslash(u) == Split(u, "?")[1]

\* u.split("?")[0].rstrip("/")
clean_url(u) == RStrip(Split(u, "?")[1], "/")

\* urlparse(BASE_URL).netloc
BASE_DOMAIN == Netloc(BASE_URL)

same_domain(u) == Netloc(u) = BASE_DOMAIN

is_blocked_domain(u) ==
    \E b \in BLOCKED_DOMAINS : Contains(Lower(Netloc(u)), b)

\* sorted(S) for a set of str
RECURSIVE Sorted(_)
Sorted(S) ==
    IF S = {} THEN <<>>
    ELSE LET m == CHOOSE x \in S : \A y \in S : y = x \/ StrLess(x, y)
         IN <<m>> \o Sorted(S \ {m})

HTTP == <<"h", "t", "t", "p">>

\* "http://a/p"
U_p ==
    <<"h", "t", "t", "p", ":", "/", "/", "a", "/", "p">>

\* "http://a/p/"
U_p_slash ==
    <<"h", "t", "t", "p", ":", "/", "/", "a", "/", "p", "/">>

\* "http://a/p?q=/"
U_p_query ==
    <<"h", "t", "t", "p", ":", "/", "/", "a", "/", "p", "?", "q", "=", "/">>

\* "http://a/b"
U_b ==
    <<"h", "t", "t", "p", ":", "/", "/", "a", "/", "b">>

\* "http://a/"
U_root ==
    <<"h", "t", "t", "p", ":", "/", "/", "a", "/">>

\* "http://b/p"
U_other ==
    <<"h", "t", "t", "p", ":", "/", "/", "b", "/", "p">>

\* "mailto:m"
U_mail ==
    <<"m", "a", "i", "l", "t", "o", ":", "m">>

\* "http://X.com/p"
U_blocked ==
    <<"h", "t", "t", "p", ":", "/", "/", "X", ".", "c", "o", "m", "/", "p">>

\* "http://a/p#f"
U_p_frag ==
    <<"h", "t", "t", "p", ":", "/", "/", "a", "/", "p", "#", "f">>

\* "http://a"
Seed_a ==
    <<"h", "t", "t", "p", ":", "/", "/", "a">>

\* "http://X.com"
Seed_blocked ==
    <<"h", "t", "t", "p", ":", "/", "/", "X", ".", "c", "o", "m">>

\* "http://a/t.me"
U_path_blocked ==
    <<"h", "t", "t", "p", ":", "/", "/", "a", "/", "t", ".", "m", "e">>

\* values of urljoin(BASE_URL, a["href"]) a page may hold, and seed URLs
HrefValues == {U_p, U_p_slash, U_p_query, U_b, U_root,
               U_other, U_mail, U_blocked, U_p_frag, U_path_blocked}
SeedValues == {Seed_a, Seed_blocked}

MaxAnchors == 3

\* every anchor list of at most MaxAnchors entries
AnchorLists == UNION {[1..n -> HrefValues] : n \in 0..MaxAnchors}

\* the main pipeline is not started while the links are collected
LinkInit ==
    /\ prog = "webtext" /\ K = 1 /\ pc = "fetch" /\ outcome = "none"
    /\ fetched = "pending" /\ N = 0 /\ linksFile = FALSE
    /\ dirExists = FALSE /\ dirCreated = FALSE /\ files = NoFiles
    /\ poolSize = 0 /\ submitted = 0 /\ queue = <<>>
    /\ inv = [i \in Indices |-> IdleInv]
    /\ results = <<>> /\ excPending = FALSE /\ pdf_files = <<>>
    /\ mergePos = 0 /\ writer = <<>> /\ artifact = <<>>
    /\ artifactWritten = FALSE /\ doneOrder = <<>>
    /\ BASE_URL \in SeedValues
    /\ hrefs \in AnchorLists
    /\ links = <<>>
    /\ calls = <<>>
    /\ lpc = "collect"

\* links = set(); for a in anchors: clean, filter, add; exit(1) when empty;
\* links = sorted(links)
L_CollectLinks ==
    /\ lpc = "collect"
    /\ LET kept == {clean_url(hrefs[k]) : k \in 1..Len(hrefs)}
           found == {u \in kept : /\ StartsWith(u, HTTP)
                                  /\ same_domain(u)
                                  /\ ~is_blocked_domain(u)}
       IN /\ links' = Sorted(found)
          /\ lpc' = IF found = {} THEN "done" ELSE "submit"
    /\ UNCHANGED <<BASE_URL, hrefs, calls>>
    /\ UNCHANGED mainVars

\* executor.submit(save_page_as_pdf, i + 1, link) for i, link in
\* enumerate(links)
L_Submit ==
    /\ lpc = "submit"
    /\ LET i == Len(calls)
       IN /\ calls' = Append(calls, <<i + 1, links[i + 1]>>)
          /\ lpc' = IF i + 1 = Len(links) THEN "done" ELSE "submit"
    /\ UNCHANGED <<BASE_URL, hrefs, links>>
    /\ UNCHANGED mainVars

LinkNext == L_CollectLinks \/ L_Submit

LinkSpec == LinkInit /\ [][LinkNext]_vars

\* every step of the main thread
Coordinator ==
    \/ W_FetchLinks \/ A_FetchLinks \/ MakeDir \/ CreatePool \/ Submit
    \/ Collect \/ Join
    \/ W_CheckEmpty \/ W_Sort \/ W_Append \/ W_Write \/ W_Cleanup
    \/ A_Sort \/ A_Check \/ A_Append \/ A_Write \/ A_Cleanup \/ A_RemoveLinks

\* scheduling: the main thread, the pool and every worker thread keep
\* running while they have a step to take (blocking calls return or time
\* out)
FairSpec ==
    /\ Spec
    /\ WF_vars(Coordinator)
    /\ WF_vars(StartInvocation)
    /\ \A i \in Indices : WF_vars(save_page_as_pdf(i))
    /\ \A i \in Indices : WF_vars(process_page(i))

\* ------------------------------------------------------------- claims
\* an invocation that has returned, by its result
Returned(i) == inv[i].pc = "returned"
Succeeded(i) == Returned(i) /\ inv[i].result # None
Failed(i) == Returned(i) /\ inv[i].result = None

\* the index assigned at submission to the invocation that returned path p
SubmitIndex(p) == CHOOSE i \in Indices : inv[i].result = p

StrictlyIncreasingByIndex(docs) ==
    \A a, b \in 1..Len(docs) :
        a < b => SubmitIndex(docs[a]) < SubmitIndex(docs[b])

\* the documents of the successful invocations, by ascending index
SuccessDocs ==
    SelectSeq([i \in 1..N |-> PdfPath(i)],
              LAMBDA p : \E i \in 1..N : Succeeded(i) /\ inv[i].result = p)

\* C1: in both scripts the documents appended to the merged artifact are
\* strictly increasing by the index assigned at submission, whatever the
\* order in which the invocations returned
C1_MergeOrder ==
    /\ StrictlyIncreasingByIndex(writer)
    /\ StrictlyIncreasingByIndex(artifact)

\* two documents merged in index order although the later index returned
\* first
C1_Witness ==
    /\ artifactWritten
    /\ Len(artifact) >= 2
    /\ \E a, b \in 1..Len(doneOrder) :
          /\ a < b /\ doneOrder[a] > doneOrder[b]
          /\ \E x, y \in 1..Len(artifact) :
                /\ SubmitIndex(artifact[x]) = doneOrder[a]
                /\ SubmitIndex(artifact[y]) = doneOrder[b]

\* C2: in webtext.py no failure of a step of save_page_as_pdf leaves the
\* function as an exception: future.result() never raises in the coordinator
C2_FailureIsolated ==
    prog = "webtext" =>
        /\ \A i \in Indices : ~inv[i].raised
        /\ ~excPending

\* C3: for K >= 1 a run that handed N targets to the pool ends with every
\* target started exactly once and exactly N results collected
C3_OneResultPerTarget ==
    (Terminated /\ poolSize >= 1) =>
        /\ Len(results) = N
        /\ \A i \in 1..N : inv[i].starts = 1

\* C4: in webtext.py a run in which some but not all invocations failed ends
\* with exit status 0 and an artifact holding exactly the successful
\* documents in ascending index order
C4_PartialFailureMerged ==
    ( /\ prog = "webtext" /\ Terminated /\ poolSize >= 1
      /\ \E i \in 1..N : Failed(i)
      /\ \E i \in 1..N : Succeeded(i) ) =>
        /\ outcome = "exit0"
        /\ artifactWritten
        /\ artifact = SuccessDocs

\* C5: in webtext.py, once every invocation has failed the merge never runs
\* and nothing is written, and the run ends with a non-zero exit status
AllFailed == N >= 1 /\ \A i \in 1..N : Failed(i)

C5_AllFailedIsFatal ==
    (prog = "webtext" /\ AllFailed) =>
        /\ pc \notin {"sort", "append", "cleanup"}
        /\ writer = <<>> /\ mergePos = 0
        /\ ~artifactWritten
        /\ Terminated => outcome \in {"exit1", "crash"} /\ ExitStatus # 0

\* every page failed by returning None and the run left through exit(1)
C5_Witness ==
    /\ prog = "webtext" /\ AllFailed /\ N >= 2
    /\ \A i \in 1..N : ~inv[i].raised
    /\ Terminated /\ outcome = "exit1"

\* C6: every run of webtext.py that created pdf_pages ends with it deleted
C6_WorkingDirDeleted ==
    (prog = "webtext" /\ Terminated /\ dirCreated) => ~dirExists

\* C7: in webtext.py a failed fetch or an empty link set ends the run at
\* once with a non-zero status: no directory, no pool, no session, no artifact
C7_NoLinksIsFatal ==
    (prog = "webtext" /\ fetched \in {"failed", "empty"}) =>
        /\ Terminated /\ outcome = "exit1" /\ ExitStatus # 0
        /\ ~dirCreated
        /\ poolSize = 0
        /\ \A i \in Indices : inv[i].starts = 0 /\ inv[i].session = "none"
        /\ ~artifactWritten

\* the fetch succeeded and no link survived the filters
C7_Witness ==
    /\ prog = "webtext" /\ fetched = "empty"
    /\ Terminated /\ outcome = "exit1" /\ ~dirExists

\* C8: with a limit <= 0 no invocation and no session ever starts, no pool
\* of any size exists, and the run that reaches the pool ends in an error
C8_NonPositiveLimitRejected ==
    K <= 0 =>
        /\ poolSize = 0
        /\ pc \notin {"submit", "collect", "join"}
        /\ \A i \in Indices : inv[i].starts = 0 /\ inv[i].session = "none"
        /\ (Terminated /\ fetched = "ok") => outcome = "crash"
        /\ (Terminated /\ prog = "webtext") => ExitStatus # 0

\* links were found and the run was rejected at the pool
C8_Witness ==
    /\ K <= 0 /\ N >= 1 /\ Terminated /\ outcome = "crash"
    /\ prog = "webtext"

\* C9: at most K invocations have started and not returned; in webtext.py
\* at most K engine sessions are open
C9_BoundedConcurrency ==
    /\ Cardinality(Running) <= (IF K >= 1 THEN K ELSE 0)
    /\ prog = "webtext" =>
          Cardinality(OpenSessions) <= (IF K >= 1 THEN K ELSE 0)

\* the pool is full, every running invocation holds a session and a target
\* waits in the queue
C9_Witness ==
    /\ prog = "webtext" /\ K >= 2
    /\ Cardinality(Running) = K
    /\ Cardinality(OpenSessions) = K
    /\ queue # <<>>

\* C10: in webtext.py an invocation that opened a session has called
\* driver.quit() exactly once when it returns, and never more than once
C10_SessionTornDownOnce ==
    prog = "webtext" =>
        \A i \in Indices :
            /\ inv[i].quits <= 1
            /\ Returned(i) =>
                  /\ inv[i].session # "open"
                  /\ inv[i].quits = (IF inv[i].session = "none" THEN 0 ELSE 1)

\* one invocation returned through the handler, one through the blocked
\* redirect or a later failure, one with a document: each quit once
C10_Witness ==
    /\ prog = "webtext"
    /\ \E i, j \in Indices :
          /\ Failed(i) /\ inv[i].session = "closed" /\ inv[i].quits = 1
          /\ Succeeded(j) /\ inv[j].session = "closed" /\ inv[j].quits = 1

\* the coordinator is past the pool: the merge of either script has begun
MergeStarted == pc \in {"check", "sort", "append", "cleanup", "rmlinks"}

\* C11: in both scripts the merge starts, and documents are appended, only
\* when every submitted invocation has returned: none queued, none running
C11_MergeAfterJoin ==
    (MergeStarted \/ writer # <<>> \/ artifactWritten) =>
        /\ submitted = N
        /\ queue = <<>>
        /\ Running = {}
        /\ \A i \in 1..N : Returned(i)

\* the first document is being appended after two invocations ran
C11_Witness ==
    /\ pc = "append" /\ Len(writer) >= 1 /\ N >= 2
    /\ \A i \in 1..N : Returned(i)

\* C12: in webtext.py every started invocation eventually returns and the
\* run eventually terminates
C12_EveryInvocationReturns ==
    /\ \A i \in Indices :
          (prog = "webtext" /\ inv[i].pc = "chrome")
              ~> (inv[i].pc = "returned")
    /\ (prog = "webtext") ~> Terminated

\* C13: in webscraper_api.py a failed fetch, an empty link set and a run
\* without any rendered document end with a non-zero status; status 0 only
\* after merged.pdf was written
C13_ApiExitStatus ==
    (prog = "api" /\ Terminated) =>
        /\ fetched \in {"failed", "empty"} => ExitStatus # 0
        /\ (fetched = "ok" /\ pdf_files = <<>>) => ExitStatus # 0
        /\ ExitStatus = 0 => artifactWritten

\* C14: in both scripts an invocation that returned a path left a non-empty
\* file at that path (until the cleanup removes the directory), and only
\* such documents are merged
C14_SuccessHasNonEmptyFile ==
    /\ \A i \in Indices :
          (Succeeded(i) /\ dirExists) => files[i] = "data"
    /\ \A k \in 1..Len(writer) :
          dirExists => FileAt(writer[k]) = "data"

\* C15: in webtext.py the steps of one invocation are taken in the order
\* session, navigation, redirect check, readiness wait, scripts, scroll loop,
\* export, write; the loop is left for the export only by a measurement equal
\* to the one before; export and write are never re-entered; a blocked
\* redirect goes straight to the teardown with a None result; and the file of
\* an index is written only by the write step that follows the export
InvocationStepOrder(i) ==
    LET a == inv[i].pc
        b == inv'[i].pc
    IN /\ (b = "get" /\ a # b) => a = "chrome"
       /\ (b = "check" /\ a # b) => a = "get"
       /\ (b = "wait" /\ a # b) => a = "check"
       /\ (b = "script" /\ a # b) => a = "wait"
       /\ (b = "scroll" /\ a # b) => a = "script"
       /\ (b = "export" /\ a # b) =>
             a = "scroll" /\ inv'[i].h = inv[i].h /\ inv[i].h \in Heights
       /\ (b = "write" /\ a # b) => a = "export"
       /\ a = "export" => b \in {"export", "write", "quit"}
       /\ a = "write" => b \in {"write", "quit"}
       /\ a = "quit" =>
             b \in {"quit", "returned"} /\ inv'[i].result = inv[i].result
       /\ a = "returned" => inv'[i] = inv[i]
       /\ (a = "check" /\ b = "quit") =>
             inv'[i].result = None /\ files'[i] = files[i]
       /\ files'[i] # files[i] => (a = "write" \/ pc = "cleanup")

C15_ExportAfterStabilization ==
    [][prog = "webtext" => \A i \in Indices : InvocationStepOrder(i)]_vars

\* one invocation left the loop on equal measurements and is about to
\* export, another returned a failure without a file at its path
C15_Witness ==
    /\ prog = "webtext"
    /\ \E i, j \in Indices :
          /\ inv[i].pc = "export" /\ inv[i].h \in Heights
          /\ Failed(j) /\ files[j] = "none" /\ inv[j].session = "closed"

\* every element of a list of documents
Docs(seq) == {seq[k] : k \in 1..Len(seq)}

\* C16: in both scripts a merge that met an unreadable document still tried
\* every document, wrote merged.pdf with the others in ascending index order
\* and removed pdf_pages
C16_CorruptSkippedOnly ==
    (Terminated /\ mergePos >= 1) =>
        /\ mergePos = Len(pdf_files) + 1
        /\ artifactWritten
        /\ artifact = writer
        /\ Docs(artifact) \subseteq Docs(pdf_files)
        /\ ~dirExists

\* C17: webtext.py writes merged.pdf and ends with status 0 only with at
\* least one document appended
C17_SuccessNeedsDocument ==
    prog = "webtext" =>
        /\ artifactWritten => Len(artifact) >= 1
        /\ (Terminated /\ outcome = "exit0") => Len(artifact) >= 1

\* C18: in webscraper_api.py an invocation that has returned holds no open
\* engine session
C18_ApiSessionTornDown ==
    prog = "api" => \A i \in Indices : Returned(i) => inv[i].session # "open"

\* C20: in both scripts pdf_files is, at every moment, the truthy results
\* collected so far in submission order, hence index-ascending before the
\* sort; every merged document was returned by an invocation of this run, and
\* the file at the path of an index whose invocation did not succeed is
\* never merged
PathIndex(p) == CHOOSE i \in Indices : PdfPath(i) = p

C20_MergeListFromResults ==
    /\ \A i \in Indices :
          ~Succeeded(i) =>
              PdfPath(i) \notin
                  (Docs(pdf_files) \cup Docs(writer) \cup Docs(artifact))
    /\ pdf_files = SelectSeq(results, LAMBDA r : r # None)
    /\ \A k \in 1..Len(results) : results[k] = inv[k].result
    /\ \A a, b \in 1..Len(pdf_files) :
          a < b => PathIndex(pdf_files[a]) < PathIndex(pdf_files[b])
    /\ Docs(writer) \subseteq Docs(pdf_files)
    /\ Docs(artifact) \subseteq Docs(pdf_files)

\* page_1.pdf lies in pdf_pages although invocation 1 failed; only the
\* document of invocation 2 was merged
C20_Witness ==
    /\ pc = "cleanup" /\ N >= 2
    /\ Failed(1) /\ files[1] # "none"
    /\ artifact = <<PdfPath(2)>>

\* C19: webtext.py: once the links are collected, the list is in strictly
\* ascending str order (so no URL occurs twice); every entry is the
\* normalized form (cut at the first "?", trailing "/" removed) of some
\* anchor target, starts with "http", has the seed's host and a host with
\* no blocked substring; every anchor target whose normalized form passes
\* these tests is in the list; and the k-th render call gets index k and
\* the k-th entry, one call per entry when the submission is over.
IsNormalizedOf(l, u) ==
    /\ StartsWith(u, l)
    /\ \A k \in 1..Len(l) : l[k] # "?"
    /\ l = <<>> \/ l[Len(l)] # "/"
    /\ \E j \in Len(l)..Len(u) :
           /\ \A k \in (Len(l) + 1)..j : u[k] = "/"
           /\ j = Len(u) \/ u[j + 1] = "?"

Admissible(l) ==
    /\ StartsWith(l, HTTP)
    /\ Netloc(l) = Netloc(BASE_URL)
    /\ \A b \in BLOCKED_DOMAINS : ~Contains(Lower(Netloc(l)), b)

C19_LinksNormalizedSortedIndexed ==
    lpc # "collect" =>
        /\ \A k \in 1..(Len(links) - 1) : StrLess(links[k], links[k + 1])
        /\ \A k \in 1..Len(links) :
               /\ \E j \in 1..Len(hrefs) : IsNormalizedOf(links[k], hrefs[j])
               /\ Admissible(links[k])
        /\ \A j \in 1..Len(hrefs) : \A n \in 0..Len(hrefs[j]) :
               LET l == SubSeq(hrefs[j], 1, n)
               IN IsNormalizedOf(l, hrefs[j]) /\ Admissible(l) =>
                      \E k \in 1..Len(links) : links[k] = l
        /\ Len(calls) <= Len(links)
        /\ \A k \in 1..Len(calls) : calls[k] = <<k, links[k]>>
        /\ lpc = "done" => Len(calls) = Len(links)

\* two different anchor targets with one normalized form, a second link,
\* and all render calls submitted
C19_Witness ==
    /\ lpc = "done"
    /\ Len(calls) >= 2
    /\ \E i, j \in 1..Len(hrefs) :
           /\ hrefs[i] # hrefs[j]
           /\ \E k \in 1..Len(links) :
                  /\ IsNormalizedOf(links[k], hrefs[i])
                  /\ IsNormalizedOf(links[k], hrefs[j])

====
